---- MODULE Spec2Model ----
(***************************************************************************)
(* Model of the AArch64 DIT pass (llvm/lib/Target/AArch64/AArch64DIT.cpp). *)
(*                                                                         *)
(* A machine function is a sequence of basic blocks, a basic block is a    *)
(* sequence of machine instructions.  The pass scans each block for the    *)
(* FrameSetup / FrameDestroy flags, collects insertion targets, and then   *)
(* splices the DIT-set sequence (MRS, MSR #1, DSB, ISB) and the DIT-unset  *)
(* sequence (MSR X14) in front of the targets.                             *)
(***************************************************************************)
EXTENDS Integers, Sequences, FiniteSets, TLC

\* Bounds of the explored machine functions.
MaxBlocks == 3
MaxInstrs == 4

\* The ilist sentinel of a block: what *MBB.end() designates.
Sentinel == 0 - 1
\* Identity of an instruction created by BuildMI (never used as a target).
NewId == 0
\* Debug location read through a reference to the sentinel.
NoLoc == 0

VARIABLES
  protected,     \* MF.getFunction().hasFnAttribute(DITProtected)
  orig,          \* the blocks of MF when the pass is entered
  blocks,        \* the blocks of MF, mutated by the pass
  pc,            \* position of the pass
  bi,            \* It of runOnMachineFunction: index of the current block
  ii,            \* It of processMachineBasicBlock: index in the current block
  inFrameSetup,  \* local of processMachineBasicBlock
  blockChanged,  \* local of processMachineBasicBlock
  setTargets,    \* local of processMachineBasicBlock (instruction identities)
  unsetTargets,  \* local of processMachineBasicBlock (instruction identities)
  changed,       \* local of runOnMachineFunction
  ret,           \* value returned by runOnMachineFunction ("none" before)
  setLog,        \* per block: the targets handed to insertBlockStartDITSet
  unsetLog,      \* per block: the targets handed to insertBlockEndDITUnset
  epos,          \* execution of the function: <<block, index>>
  dit,           \* PSTATE.DIT while the function executes
  x14,           \* register X14 while the function executes
  dit0,          \* PSTATE.DIT at function entry
  trace          \* events executed so far: "E", "R", "P", "X"

passVars == <<protected, orig, blocks, pc, bi, ii, inFrameSetup, blockChanged,
              setTargets, unsetTargets, changed, ret, setLog, unsetLog>>
execVars == <<epos, dit, x14, dit0, trace>>
vars == <<protected, orig, blocks, pc, bi, ii, inFrameSetup, blockChanged,
          setTargets, unsetTargets, changed, ret, setLog, unsetLog,
          epos, dit, x14, dit0, trace>>

----------------------------------------------------------------------------
\* Machine instructions.

\* The two MIFlags the pass reads.
Flags == [fs : BOOLEAN, fd : BOOLEAN]

\* An instruction of the incoming function: its identity, its own debug
\* location and its FrameSetup / FrameDestroy flags.
OrigInstr(n, f) == [id |-> n, op |-> "ORIG", fs |-> f.fs, fd |-> f.fd, dl |-> n]

\* An instruction made by BuildMI: no MIFlags, the debug location it is given.
BuildMI(opc, loc) == [id |-> NewId, op |-> opc, fs |-> FALSE, fd |-> FALSE, dl |-> loc]

RECURSIVE SumTo(_, _)
SumTo(lens, n) == IF n = 0 THEN 0 ELSE lens[n] + SumTo(lens, n - 1)

\* The function whose block b has lens[b] instructions with flags fl.
MkBlocks(lens, fl) ==
  [b \in DOMAIN lens |->
     [i \in 1..lens[b] |-> OrigInstr(SumTo(lens, b - 1) + i, fl[SumTo(lens, b - 1) + i])]]

\* Position of the instruction with identity t in block B; the sentinel is
\* the end position.
PosOf(B, t) ==
  IF t = Sentinel THEN Len(B) + 1
  ELSE CHOOSE p \in 1..Len(B) : B[p].id = t

\* Debug location of the instruction with identity t in block B.
DebugLocOf(B, t) == IF t = Sentinel THEN NoLoc ELSE B[PosOf(B, t)].dl

\* Mutant of InsertBefore: the new instructions take the place of the
\* instruction at position p.
InsertBefore_Overwrite(B, p, MIs) ==
  SubSeq(B, 1, p - 1) \o MIs \o SubSeq(B, p + 1, Len(B))

\* MBB.insert(I, MI): MI is spliced in immediately before position p.
InsertBefore(B, p, MIs) == SubSeq(B, 1, p - 1) \o MIs \o SubSeq(B, p, Len(B))

\* Mutant of DITSetSeq: DIT is set before it is read into X14.
DITSetSeq_SetBeforeRead(loc) ==
  << BuildMI("MSRi", loc), BuildMI("MRS", loc), BuildMI("DSB", loc), BuildMI("ISB", loc) >>

\* The four instructions built by insertBlockStartDITSet.
DITSetSeq(loc) ==
  << BuildMI("MRS", loc), BuildMI("MSRi", loc), BuildMI("DSB", loc), BuildMI("ISB", loc) >>

\* The instruction built by insertBlockEndDITUnset.
DITUnsetSeq(loc) == << BuildMI("MSRr", loc) >>

insertBlockStartDITSet(B, t) ==
  InsertBefore(B, PosOf(B, t), DITSetSeq(DebugLocOf(B, t)))

insertBlockEndDITUnset(B, t) ==
  InsertBefore(B, PosOf(B, t), DITUnsetSeq(DebugLocOf(B, t)))

----------------------------------------------------------------------------
\* Initial states: every function of at most MaxBlocks blocks and MaxInstrs
\* instructions, with every combination of flags, protected or not.

EmptyLog == [b \in 1..MaxBlocks |-> << >>]

Init ==
  \E k \in 1..MaxBlocks :
    \E lens \in [1..k -> 0..MaxInstrs] :
      /\ SumTo(lens, k) <= MaxInstrs
      /\ \E fl \in [1..SumTo(lens, k) -> Flags] :
           /\ orig = MkBlocks(lens, fl)
           /\ blocks = MkBlocks(lens, fl)
      /\ protected \in BOOLEAN
      /\ pc = "start"
      /\ bi = 0
      /\ ii = 0
      /\ inFrameSetup = FALSE
      /\ blockChanged = FALSE
      /\ setTargets = << >>
      /\ unsetTargets = << >>
      /\ changed = FALSE
      /\ ret = "none"
      /\ setLog = EmptyLog
      /\ unsetLog = EmptyLog
      /\ epos = << 0, 0 >>
      /\ dit = 0
      /\ x14 = 0
      /\ dit0 = 0
      /\ trace = << >>

----------------------------------------------------------------------------
\* runOnMachineFunction / processMachineBasicBlock.

\* Mutant of hasDITProtected: the attribute is not consulted.
hasDITProtected_Always(attr) == TRUE

\* The attribute test of runOnMachineFunction.
hasDITProtected(attr) == attr

\* The test for leaving a FrameSetup run in the scanning loop.
IsFrameSetupExit(curFS, inFS) == ~curFS /\ inFS

\* Mutant of IsFirstFrameDestroy: every FrameDestroy instruction is taken.
IsFirstFrameDestroy_Every(uts, MI) == MI.fd

\* The test for the first FrameDestroy instruction in the scanning loop.
IsFirstFrameDestroy(uts, MI) == uts = << >> /\ MI.fd

\* Mutant of NeedsForcedTarget: the emptiness test is inverted.
NeedsForcedTarget_Inverted(isFirstBlock, sts) == isFirstBlock /\ sts # << >>

\* The test for forcing a set target after the scanning loop.
NeedsForcedTarget(isFirstBlock, sts) == isFirstBlock /\ sts = << >>

\* Mutant of EnterBlock: inFrameSetup is carried over from the block before.
EnterBlock_KeepFlag(b) ==
  /\ bi' = b
  /\ ii' = 1
  /\ inFrameSetup' = inFrameSetup
  /\ blockChanged' = FALSE
  /\ setTargets' = << >>
  /\ unsetTargets' = << >>
  /\ pc' = "scan"

\* Entry of processMachineBasicBlock for block b.
EnterBlock(b) ==
  /\ bi' = b
  /\ ii' = 1
  /\ inFrameSetup' = FALSE
  /\ blockChanged' = FALSE
  /\ setTargets' = << >>
  /\ unsetTargets' = << >>
  /\ pc' = "scan"

\* runOnMachineFunction on a function without the attribute.
ReturnUnprotected ==
  /\ pc = "start"
  /\ ~hasDITProtected(protected)
  /\ ret' = FALSE
  /\ pc' = "done"
  /\ UNCHANGED << protected, orig, blocks, bi, ii, inFrameSetup, blockChanged,
                  setTargets, unsetTargets, changed, setLog, unsetLog >>
  /\ UNCHANGED execVars

\* runOnMachineFunction on a protected function, up to the first block.
BeginProtected ==
  /\ pc = "start"
  /\ hasDITProtected(protected)
  /\ changed' = FALSE
  /\ EnterBlock(1)
  /\ UNCHANGED << protected, orig, blocks, ret, setLog, unsetLog >>
  /\ UNCHANGED execVars

\* One iteration of the scanning loop of processMachineBasicBlock.
ScanStep ==
  /\ pc = "scan"
  /\ ii <= Len(blocks[bi])
  /\ LET MI == blocks[bi][ii]
         curFS == MI.fs
         exit == IsFrameSetupExit(curFS, inFrameSetup)
         first == IsFirstFrameDestroy(unsetTargets, MI)
     IN /\ setTargets' = IF exit THEN Append(setTargets, MI.id) ELSE setTargets
        /\ inFrameSetup' = curFS
        /\ unsetTargets' = IF first THEN Append(unsetTargets, MI.id) ELSE unsetTargets
        /\ blockChanged' = (blockChanged \/ exit \/ first)
  /\ ii' = ii + 1
  /\ UNCHANGED << protected, orig, blocks, pc, bi, changed, ret, setLog, unsetLog >>
  /\ UNCHANGED execVars

\* End of the scanning loop when no target is forced.
ScanEnd ==
  /\ pc = "scan"
  /\ ii > Len(blocks[bi])
  /\ ~NeedsForcedTarget(bi = 1, setTargets)
  /\ pc' = "set"
  /\ UNCHANGED << protected, orig, blocks, bi, ii, inFrameSetup, blockChanged,
                  setTargets, unsetTargets, changed, ret, setLog, unsetLog >>
  /\ UNCHANGED execVars

\* End of the scanning loop of the first block with no set target: the
\* first instruction of the block is pushed.
ForceEntry ==
  /\ pc = "scan"
  /\ ii > Len(blocks[bi])
  /\ NeedsForcedTarget(bi = 1, setTargets)
  /\ Len(blocks[bi]) > 0
  /\ setTargets' = Append(setTargets, blocks[bi][1].id)
  /\ pc' = "set"
  /\ UNCHANGED << protected, orig, blocks, bi, ii, inFrameSetup, blockChanged,
                  unsetTargets, changed, ret, setLog, unsetLog >>
  /\ UNCHANGED execVars

\* The same on an empty first block: *MBB.begin() is *MBB.end(), the
\* sentinel of the list.  Reading an instruction through it is undefined:
\* the build either stops there or carries on with the end position.
ForceEntryEmpty ==
  /\ pc = "scan"
  /\ ii > Len(blocks[bi])
  /\ NeedsForcedTarget(bi = 1, setTargets)
  /\ Len(blocks[bi]) = 0
  /\ setTargets' = Append(setTargets, Sentinel)
  /\ pc' \in {"set", "crashed"}
  /\ UNCHANGED << protected, orig, blocks, bi, ii, inFrameSetup, blockChanged,
                  unsetTargets, changed, ret, setLog, unsetLog >>
  /\ UNCHANGED execVars

\* One iteration of the loop over setTargets.
InsertSet ==
  /\ pc = "set"
  /\ setTargets # << >>
  /\ blocks' = [blocks EXCEPT ![bi] = insertBlockStartDITSet(@, Head(setTargets))]
  /\ setLog' = [setLog EXCEPT ![bi] = Append(@, Head(setTargets))]
  /\ setTargets' = Tail(setTargets)
  /\ UNCHANGED << protected, orig, pc, bi, ii, inFrameSetup, blockChanged,
                  unsetTargets, changed, ret, unsetLog >>
  /\ UNCHANGED execVars

\* End of the loop over setTargets.
SetEnd ==
  /\ pc = "set"
  /\ setTargets = << >>
  /\ pc' = "unset"
  /\ UNCHANGED << protected, orig, blocks, bi, ii, inFrameSetup, blockChanged,
                  setTargets, unsetTargets, changed, ret, setLog, unsetLog >>
  /\ UNCHANGED execVars

\* One iteration of the loop over unsetTargets.
InsertUnset ==
  /\ pc = "unset"
  /\ unsetTargets # << >>
  /\ blocks' = [blocks EXCEPT ![bi] = insertBlockEndDITUnset(@, Head(unsetTargets))]
  /\ unsetLog' = [unsetLog EXCEPT ![bi] = Append(@, Head(unsetTargets))]
  /\ unsetTargets' = Tail(unsetTargets)
  /\ UNCHANGED << protected, orig, pc, bi, ii, inFrameSetup, blockChanged,
                  setTargets, changed, ret, setLog >>
  /\ UNCHANGED execVars

\* Return of processMachineBasicBlock into the block loop, with a next block.
NextBlock ==
  /\ pc = "unset"
  /\ unsetTargets = << >>
  /\ bi < Len(blocks)
  /\ changed' = (blockChanged \/ changed)
  /\ EnterBlock(bi + 1)
  /\ UNCHANGED << protected, orig, blocks, ret, setLog, unsetLog >>
  /\ UNCHANGED execVars

\* Return of processMachineBasicBlock for the last block, and return of
\* runOnMachineFunction.
ReturnProtected ==
  /\ pc = "unset"
  /\ unsetTargets = << >>
  /\ bi = Len(blocks)
  /\ changed' = (blockChanged \/ changed)
  /\ ret' = (blockChanged \/ changed)
  /\ pc' = "done"
  /\ UNCHANGED << protected, orig, blocks, bi, ii, inFrameSetup, blockChanged,
                  setTargets, unsetTargets, setLog, unsetLog >>
  /\ UNCHANGED execVars

Next ==
  \/ ReturnUnprotected
  \/ BeginProtected
  \/ ScanStep
  \/ ScanEnd
  \/ ForceEntry
  \/ ForceEntryEmpty
  \/ InsertSet
  \/ SetEnd
  \/ InsertUnset
  \/ NextBlock
  \/ ReturnProtected

Spec == Init /\ [][Next]_vars

----------------------------------------------------------------------------
\* Execution of the function the pass leaves behind.  Blocks are entered at
\* their first instruction; control leaves a block at its end, either to a
\* later block of the layout or out of the function.  Instructions of the
\* incoming function do not touch X14 or DIT.

Bit == {0, 1}

\* The event an instruction adds to the trace: "E" for the MSR DIT, #1 of a
\* set sequence, "R" for MSR DIT, X14, "P" for a FrameDestroy instruction.
EventOf(MI) ==
  IF MI.op = "MSRi" THEN << "E" >>
  ELSE IF MI.op = "MSRr" THEN << "R" >>
  ELSE IF MI.op = "ORIG" /\ MI.fd THEN << "P" >>
  ELSE << >>

\* X14 after MI: MRS X14, DIT reads the mode bit.
X14After(MI, r, d) == IF MI.op = "MRS" THEN d ELSE r

\* DIT after MI: MSR DIT, #1 sets it, MSR DIT, X14 writes the register back.
DITAfter(MI, r, d) ==
  IF MI.op = "MSRi" THEN 1 ELSE IF MI.op = "MSRr" THEN r ELSE d

\* The function is called, with any mode bit and any content of X14.
StartExec ==
  /\ pc = "done"
  /\ pc' = "exec"
  /\ epos' = << 1, 1 >>
  /\ dit0' \in Bit
  /\ dit' = dit0'
  /\ x14' \in Bit
  /\ trace' = << >>
  /\ UNCHANGED << protected, orig, blocks, bi, ii, inFrameSetup, blockChanged,
                  setTargets, unsetTargets, changed, ret, setLog, unsetLog >>

\* The instruction at the current position executes.
ExecInstr ==
  /\ pc = "exec"
  /\ epos[2] <= Len(blocks[epos[1]])
  /\ LET MI == blocks[epos[1]][epos[2]]
     IN /\ x14' = X14After(MI, x14, dit)
        /\ dit' = DITAfter(MI, x14, dit)
        /\ trace' = trace \o EventOf(MI)
  /\ epos' = << epos[1], epos[2] + 1 >>
  /\ UNCHANGED passVars
  /\ UNCHANGED dit0

\* Control passes from the end of a block to a later block.
ExecBranch ==
  /\ pc = "exec"
  /\ epos[2] > Len(blocks[epos[1]])
  /\ \E b \in (epos[1] + 1)..Len(blocks) : epos' = << b, 1 >>
  /\ UNCHANGED passVars
  /\ UNCHANGED << dit, x14, dit0, trace >>

\* Control leaves the function at the end of a block.
ExecReturn ==
  /\ pc = "exec"
  /\ epos[2] > Len(blocks[epos[1]])
  /\ pc' = "exited"
  /\ trace' = Append(trace, "X")
  /\ UNCHANGED << protected, orig, blocks, bi, ii, inFrameSetup, blockChanged,
                  setTargets, unsetTargets, changed, ret, setLog, unsetLog >>
  /\ UNCHANGED << epos, dit, x14, dit0 >>

NextExec ==
  \/ ReturnUnprotected
  \/ BeginProtected
  \/ ScanStep
  \/ ScanEnd
  \/ ForceEntry
  \/ ForceEntryEmpty
  \/ InsertSet
  \/ SetEnd
  \/ InsertUnset
  \/ NextBlock
  \/ ReturnProtected
  \/ StartExec
  \/ ExecInstr
  \/ ExecBranch
  \/ ExecReturn

SpecExec == Init /\ [][NextExec]_vars

----------------------------------------------------------------------------
\* Vocabulary of the properties, stated on the incoming function (orig) and
\* on the function the pass leaves (blocks).

EnableOps == << "MRS", "MSRi", "DSB", "ISB" >>

\* The instructions of B that the pass did not build.
Strip(B) == SelectSeq(B, LAMBDA m : m.op = "ORIG")

\* How many instructions of B have opcode opc.
CountOp(B, opc) == Cardinality({p \in 1..Len(B) : B[p].op = opc})

\* How many instructions of B the set sequence built.
CountEnable(B) == Cardinality({p \in 1..Len(B) : B[p].op \in {"MRS", "MSRi", "DSB", "ISB"}})

\* Indices of the instructions of O that are not FrameSetup and directly
\* follow a FrameSetup instruction.
PrologueExits(O) == {i \in 2..Len(O) : O[i - 1].fs /\ ~O[i].fs}

\* Indices of the FrameDestroy instructions of O.
Epilogues(O) == {i \in 1..Len(O) : O[i].fd}

\* The first FrameDestroy instruction of O (0 when there is none).
FirstEpilogue(O) ==
  IF Epilogues(O) = {} THEN 0
  ELSE CHOOSE i \in Epilogues(O) : \A j \in Epilogues(O) : i <= j

\* Position, in the current block b, of the instruction that was orig[b][i].
FinalPos(b, i) == CHOOSE p \in 1..Len(blocks[b]) : blocks[b][p].id = orig[b][i].id

\* The four instructions of B that end right before position q are a set
\* sequence, in order.
EnableEndsBefore(B, q) ==
  /\ q > 4
  /\ \A k \in 1..4 : B[q - 5 + k].op = EnableOps[k]

\* How many set sequences were built for the instruction with location l.
EnablesFor(B, l) == Cardinality({p \in 1..Len(B) : B[p].op = "MRS" /\ B[p].dl = l})

Blocks == 1..Len(orig)

Done == pc = "done"

----------------------------------------------------------------------------
\* C1 (as stated): after the pass on a protected function, every instruction
\* X that directly follows a FrameSetup run has exactly one set sequence
\* MRS, MSR #1, DSB, ISB built for it, contiguous, whose last instruction is
\* immediately before X.
C1_EnableImmediatelyBeforeX ==
  (Done /\ protected) =>
    \A b \in Blocks : \A i \in PrologueExits(orig[b]) :
      /\ EnablesFor(blocks[b], orig[b][i].dl) = 1
      /\ EnableEndsBefore(blocks[b], FinalPos(b, i))

\* C1 (amended): the same, except that when X is also the first FrameDestroy
\* instruction of its block the single MSR DIT, X14 stands between the set
\* sequence and X.
C1_EnableBeforeX ==
  (Done /\ protected) =>
    \A b \in Blocks : \A i \in PrologueExits(orig[b]) :
      /\ EnablesFor(blocks[b], orig[b][i].dl) = 1
      /\ IF i = FirstEpilogue(orig[b])
         THEN /\ blocks[b][FinalPos(b, i) - 1].op = "MSRr"
              /\ EnableEndsBefore(blocks[b], FinalPos(b, i) - 1)
         ELSE EnableEndsBefore(blocks[b], FinalPos(b, i))

\* C1 witness: the pass has finished on a protected function with a block
\* where a FrameSetup run is followed by an X that is the first FrameDestroy
\* instruction, and another where X carries no flag.
C1_Witness ==
  /\ Done /\ protected
  /\ \E b \in Blocks : \E i \in PrologueExits(orig[b]) : i = FirstEpilogue(orig[b])
  /\ \E b \in Blocks : \E i \in PrologueExits(orig[b]) : ~orig[b][i].fd

\* C2: after the pass on a protected function, a block with a FrameDestroy
\* instruction holds exactly one MSR DIT, X14, immediately before the first
\* FrameDestroy instruction and before no later one; a block without
\* FrameDestroy instruction holds none.
C2_RestoreBeforeFirstEpilogue ==
  (Done /\ protected) =>
    \A b \in Blocks :
      IF Epilogues(orig[b]) = {}
      THEN CountOp(blocks[b], "MSRr") = 0
      ELSE /\ CountOp(blocks[b], "MSRr") = 1
           /\ blocks[b][FinalPos(b, FirstEpilogue(orig[b])) - 1].op = "MSRr"
           /\ blocks[b][FinalPos(b, FirstEpilogue(orig[b])) - 1].dl
                = orig[b][FirstEpilogue(orig[b])].dl
           /\ \A j \in Epilogues(orig[b]) \ {FirstEpilogue(orig[b])} :
                blocks[b][FinalPos(b, j) - 1].op # "MSRr"

\* C2 witness: a finished protected function with a block that has two
\* FrameDestroy instructions and a block that has none.
C2_Witness ==
  /\ Done /\ protected
  /\ \E b \in Blocks : Cardinality(Epilogues(orig[b])) >= 2
  /\ \E b \in Blocks : Epilogues(orig[b]) = {} /\ Len(orig[b]) > 0

\* C3: after the pass on a protected function whose first block has no
\* instruction that directly follows a FrameSetup run, the first block holds
\* exactly one set sequence, it is the first four instructions of the block,
\* and every instruction of the incoming block comes after it, in order.
C3_ForcedEnableAtEntry ==
  (Done /\ protected /\ PrologueExits(orig[1]) = {}) =>
    /\ CountEnable(blocks[1]) = 4
    /\ EnableEndsBefore(blocks[1], 5)
    /\ Strip(SubSeq(blocks[1], 5, Len(blocks[1]))) = orig[1]

\* C3 witness: a finished protected function whose first block consists of
\* FrameSetup instructions only.
C3_Witness ==
  /\ Done /\ protected
  /\ Len(orig[1]) >= 2
  /\ \A i \in 1..Len(orig[1]) : orig[1][i].fs

\* C4: on a function without the attribute the blocks are never touched and
\* the pass returns false.
C4_UnprotectedUntouched ==
  ~protected => (blocks = orig /\ (Done => ret = FALSE))

\* C4 witness: the pass has returned on an unprotected function that has
\* both a FrameSetup run followed by another instruction and a FrameDestroy
\* instruction.
C4_Witness ==
  /\ Done /\ ~protected
  /\ \E b \in Blocks : PrologueExits(orig[b]) # {} /\ Epilogues(orig[b]) # {}

\* C5 (as stated): on a protected function (taken with a first block that
\* is not empty) a block is reported changed exactly when instructions were
\* inserted in it, and the pass returns true exactly when it inserted at
\* least one instruction.
C5_ChangedIffInserted ==
  (protected /\ orig[1] # << >>) =>
    /\ (pc = "unset" /\ unsetTargets = << >>) =>
         (blockChanged = (blocks[bi] # orig[bi]))
    /\ Done => (ret = (blocks # orig))

\* C8: the pass only adds instructions: removing what it built leaves every
\* block of the incoming function, and when it has finished each block has
\* grown by four instructions per set target and one per unset target, the
\* unset targets being at most one per block.
C8_StrictlyAdditive ==
  protected =>
    /\ \A b \in Blocks : Strip(blocks[b]) = orig[b]
    /\ Done =>
         \A b \in Blocks :
           LET forced == IF b = 1 /\ PrologueExits(orig[b]) = {} THEN 1 ELSE 0
               nSet == Cardinality(PrologueExits(orig[b])) + forced
               nUnset == IF Epilogues(orig[b]) = {} THEN 0 ELSE 1
           IN /\ Len(blocks[b]) = Len(orig[b]) + 4 * nSet + nUnset
              /\ Len(setLog[b]) = nSet
              /\ Len(unsetLog[b]) = nUnset

\* C8 witness: a finished protected function with a block that has two set
\* targets and a block that has a set and an unset target.
C8_Witness ==
  /\ Done /\ protected
  /\ \E b \in Blocks : Cardinality(PrologueExits(orig[b])) = 2
  /\ \E b \in Blocks : Len(setLog[b]) >= 1 /\ Len(unsetLog[b]) = 1

\* C9 (as stated): the pass always runs to completion, and every target it
\* hands to the insertion routines is an instruction of the block, never the
\* end of the block.
C9_TotalValidTargets ==
  /\ pc # "crashed"
  /\ \A k \in 1..Len(setTargets) : setTargets[k] # Sentinel
  /\ \A k \in 1..Len(unsetTargets) : unsetTargets[k] # Sentinel

\* C10: the FrameSetup tracking starts afresh in every block, and after the
\* pass on a protected function a block other than the first that has no
\* FrameSetup instruction holds no instruction of a set sequence, and holds
\* MSR DIT, X14 once if it has a FrameDestroy instruction and not at all
\* otherwise.
C10_PerBlockTracking ==
  /\ (pc = "scan" /\ ii = 1) => ~inFrameSetup
  /\ (Done /\ protected) =>
       \A b \in Blocks \ {1} :
         (\A i \in 1..Len(orig[b]) : ~orig[b][i].fs) =>
           /\ CountEnable(blocks[b]) = 0
           /\ CountOp(blocks[b], "MSRr") = (IF Epilogues(orig[b]) = {} THEN 0 ELSE 1)

\* C10 witness: a finished protected function with a later block that has
\* instructions, a FrameDestroy one among them, none of them FrameSetup,
\* and whose predecessor in the layout ends with a FrameSetup instruction.
C10_Witness ==
  /\ Done /\ protected
  /\ \E b \in Blocks \ {1} :
       /\ Len(orig[b]) >= 2
       /\ ~orig[b][1].fd
       /\ Epilogues(orig[b]) # {}
       /\ \A i \in 1..Len(orig[b]) : ~orig[b][i].fs
       /\ Len(orig[b - 1]) > 0
       /\ orig[b - 1][Len(orig[b - 1])].fs

\* Index of the first "E" or "X" after position i of the trace tr.
NextStop(tr, i) ==
  CHOOSE j \in (i + 1)..Len(tr) :
    /\ tr[j] \in {"E", "X"}
    /\ \A k \in (i + 1)..(j - 1) : tr[k] \notin {"E", "X"}

\* The first event of the trace tr is an "E".
EnabledFirst(tr) == tr # << >> /\ tr[1] = "E"

\* C6 (as stated): on every path through the instrumented function (taken
\* with a first block that is not empty) to the point where control leaves
\* it, each executed set sequence is followed, before the next set sequence
\* and before control leaves, by exactly one MSR DIT, X14, and no
\* FrameDestroy instruction executes in between.
C6_EnableRestorePaired ==
  (pc = "exited" /\ protected /\ orig[1] # << >>) =>
    \A i \in 1..Len(trace) :
      trace[i] = "E" =>
        LET j == NextStop(trace, i)
            Rs == {k \in (i + 1)..(j - 1) : trace[k] = "R"}
        IN /\ Cardinality(Rs) = 1
           /\ \A k \in Rs : \A m \in (i + 1)..(k - 1) : trace[m] # "P"

\* C7 (as stated): in the instrumented function (taken with a first block
\* that is not empty), whenever MSR DIT, X14 is about to execute on a path
\* that began with a set sequence, X14 holds the value DIT had at function
\* entry, and
\* when control leaves the function right after such a restore DIT has its
\* entry value again.
C7_RestoresEntryMode ==
  (protected /\ orig[1] # << >> /\ EnabledFirst(trace)) =>
    /\ (/\ pc = "exec"
        /\ epos[2] <= Len(blocks[epos[1]])
        /\ blocks[epos[1]][epos[2]].op = "MSRr") => x14 = dit0
    /\ (/\ pc = "exited"
        /\ trace[Len(trace) - 1] = "R") => dit = dit0

====
